---- MODULE Spec2Model ----
(***************************************************************************)
(* Model of examples/demo/products/models.py: the price computation of a   *)
(* product variant (Product._get_base_price, Variant.get_price_for_item,   *)
(* DiscountGroup.get_discount_amount) and the main-image bookkeeping of a   *)
(* product (ProductImage.save, assign_main_image, assign_new_main_image).    *)
(*                                                                         *)
(* Decimal fields are integers counting their last decimal place: a        *)
(* DecimalField with 4 decimal places holds n for n * 10^-4, the rate of a  *)
(* DiscountGroup (2 decimal places) holds n for n * 10^-2 percent.  A       *)
(* Price's net amount counts 10^-8, the finest unit a discounted price      *)
(* needs, so every Decimal operation of the code is exact here as it is in  *)
(* Python.                                                                  *)
(***************************************************************************)
EXTENDS Integers, FiniteSets

VARIABLES
    \* the catalog rows the price computation reads
    price,          \* Product.price, per product
    discount,       \* Product.discount: the rate of the product's DiscountGroup, or NULL
    price_offset,   \* Variant.price_offset, per variant
    overrides,      \* the PriceQtyOverride rows
    result,         \* the last price call and what it produced
    \* the rows the image handlers read and write
    products,       \* ids of the Product rows that exist
    images,         \* the ProductImage rows
    main_image,     \* ProductBase.main_image (a ProductImage id or NULL), per product
    nextId,         \* the id the next ProductImage row gets
    rawLoaded,      \* history: some image was saved with raw=True (fixture loading)
    ev              \* the last image/product event and what its signal handler did

priceVars == <<price, discount, price_offset, overrides, result>>
imageVars == <<products, images, main_image, nextId, rawLoaded, ev>>
vars == <<price, discount, price_offset, overrides, result,
          products, images, main_image, nextId, rawLoaded, ev>>

----------------------------------------------------------------------------
\* Bounds of the model

MaxQty == 3
MaxOverrides == 2
MaxImages == 3
MaxOrder == 2

----------------------------------------------------------------------------
\* Values

\* Python None / SQL NULL
NULL == -1

Products == {1, 2}
Variants == {1, 2}

\* Variant.product: variant v is a variant of product v
VariantProduct(v) == v

\* settings.SATCHESS_DEFAULT_CURRENCY
DefaultCurrency == "DEFAULT"

\* 10^-4 (a price field's unit) in the unit of a Price's net amount (10^-8)
FieldScale == 10000

\* Decimal('0.01') of a rate counted in 10^-2: rate * 0.01 = rate_units / 10000
RateScale == 10000

\* Product.price of the two products
BasePrice == [p \in Products |-> IF p = 1 THEN 10 ELSE 12]
OverridePrices == {6, 8}
Rates == {2000}
Offsets == {0, 5}
Quantities == 1..MaxQty

OverrideRows == [product : Products, min_qty : Quantities, price : OverridePrices]

\* Price(amount, currency=currency) of a 4-decimal-place field value
Price(amount, currency) == [net |-> amount * FieldScale, currency |-> currency]

NoPrice == [net |-> NULL, currency |-> "none"]

----------------------------------------------------------------------------
\* Price computation

\* self.qty_price_overrides.all().filter(min_qty__lte=quantity)
FilterMinQtyLte(rows, p, quantity) ==
    {o \in rows : o.product = p /\ o.min_qty <= quantity}

OrderByMinQtyAscFirst(qs) ==
    {o \in qs : \A x \in qs : o.min_qty <= x.min_qty}

\* .order_by('-min_qty'), then [0]: the rows that can come first (rows of one
\* min_qty come in an order the database chooses)
OrderByMinQtyDescFirst(qs) ==
    {o \in qs : \A x \in qs : x.min_qty <= o.min_qty}

\* overrides[0] on a QuerySet: the first row, or IndexError when there is none
QuerySetFirst(qs) ==
    IF qs = {}
    THEN {[exc |-> "IndexError", row |-> [product |-> NULL, min_qty |-> NULL, price |-> NULL]]}
    ELSE {[exc |-> "none", row |-> o] : o \in OrderByMinQtyDescFirst(qs)}

\* Product._get_base_price(quantity): the set of outcomes [raised, price]
_get_base_price(rows, prices, p, quantity) ==
    LET qs == FilterMinQtyLte(rows, p, quantity)
        currency == DefaultCurrency
    IN  { IF f.exc = "none"
            THEN [raised |-> "none", price |-> Price(f.row.price, currency)]
          ELSE IF f.exc = "DoesNotExist"      \* except PriceQtyOverride.DoesNotExist
            THEN [raised |-> "none", price |-> Price(prices[p], currency)]
          ELSE [raised |-> f.exc, price |-> NoPrice]
          : f \in QuerySetFirst(qs) }

\* DiscountGroup.get_discount_amount(price): price * rate * Decimal('0.01')
get_discount_amount(rate, pr) ==
    [net |-> (pr.net * rate) \div RateScale, currency |-> pr.currency]

PriceAdd(a, b) == [net |-> a.net + b.net, currency |-> a.currency]
PriceSub(a, b) == [net |-> a.net - b.net, currency |-> a.currency]

\* if discount and self.product.discount: price -= ...get_discount_amount(price)
ApplyDiscount(flag, rate, pr) ==
    IF flag /\ rate # NULL THEN PriceSub(pr, get_discount_amount(rate, pr)) ELSE pr

\* Variant.get_price_for_item(discount, quantity): the set of outcomes
get_price_for_item(rows, prices, rates, offsets, v, flag, quantity) ==
    LET p == VariantProduct(v)
        currency == DefaultCurrency
    IN  { IF b.raised # "none"
            THEN b
            ELSE [raised |-> "none",
                  price  |-> ApplyDiscount(flag, rates[p],
                                 PriceAdd(b.price, Price(offsets[v], currency)))]
          : b \in _get_base_price(rows, prices, p, quantity) }

NoCall == [op |-> "none", who |-> NULL, quantity |-> NULL, discount |-> FALSE,
           raised |-> "none", price |-> NoPrice]

\* a caller evaluates product._get_base_price(quantity)
CallGetBasePrice(p, q) ==
    /\ \E r \in _get_base_price(overrides, price, p, q) :
          result' = [op |-> "_get_base_price", who |-> p, quantity |-> q,
                     discount |-> FALSE, raised |-> r.raised, price |-> r.price]
    /\ UNCHANGED <<price, discount, price_offset, overrides>>
    /\ UNCHANGED imageVars

\* a caller evaluates variant.get_price_for_item(discount=flag, quantity=q)
CallGetPriceForItem(v, flag, q) ==
    /\ \E r \in get_price_for_item(overrides, price, discount, price_offset, v, flag, q) :
          result' = [op |-> "get_price_for_item", who |-> v, quantity |-> q,
                     discount |-> flag, raised |-> r.raised, price |-> r.price]
    /\ UNCHANGED <<price, discount, price_offset, overrides>>
    /\ UNCHANGED imageVars

----------------------------------------------------------------------------
\* Product images

ProductImages(imgs, p) == {i \in imgs : i.product = p}

ImageIds(imgs) == {i.id : i \in imgs}

\* aggregate(max_order=models.Max("order"))['max_order']: None over no rows
AggregateMaxOrder(qs) ==
    IF qs = {} THEN NULL
    ELSE (CHOOSE i \in qs : \A x \in qs : x.order <= i.order).order

\* Python's `value or 0`: None and 0 are both false
OrZero(value) == IF value = NULL \/ value = 0 THEN 0 ELSE value

\* ProductImage.save: the order the row is stored with
save_order(imgs, p, order) ==
    IF order = NULL
    THEN OrZero(AggregateMaxOrder(ProductImages(imgs, p)))
    ELSE order

LastByOrder(qs) == {i \in qs : \A x \in qs : x.order <= i.order}

\* images.all()[0] under Meta.ordering = ('order',): the rows that can come
\* first (rows of one order come in an order the database chooses)
FirstByOrder(qs) == {i \in qs : \A x \in qs : i.order <= x.order}

\* post_save handler of ProductImage: the set of outcomes [main_image, saved]
assign_main_image(imgs, mi, instance, raw) ==
    LET p == instance.product
    IN  IF ~raw /\ mi[p] = NULL /\ ProductImages(imgs, p) # {}
        THEN {[main_image |-> [mi EXCEPT ![p] = f.id], saved |-> TRUE]
                 : f \in FirstByOrder(ProductImages(imgs, p))}
        ELSE {[main_image |-> mi, saved |-> FALSE]}

\* instance.product as the post_delete handler sees it.  "db": the relation is
\* not loaded on the instance and is fetched now, after the deletion (and the
\* SET_NULL update that goes with it) reached the database.  "cached": the
\* instance carries a product, and that product its main_image, loaded before
\* the deletion.
InstanceProduct(view, instance, prods, miBefore, miNow) ==
    IF view = "cached"
    THEN [found |-> TRUE, main_image |-> miBefore[instance.product]]
    ELSE IF instance.product \in prods
    THEN [found |-> TRUE, main_image |-> miNow[instance.product]]
    ELSE [found |-> FALSE, main_image |-> NULL]

Reraise(mi) == {[main_image |-> mi, saved |-> FALSE, error |-> "Product.DoesNotExist"]}

\* except Product.DoesNotExist: pass
OnProductDoesNotExist(mi) == {[main_image |-> mi, saved |-> FALSE, error |-> "none"]}

\* post_delete handler of ProductImage: the outcomes [main_image, saved, error];
\* imgs and mi are the rows after the deletion, product what instance.product
\* evaluates to
assign_new_main_image(imgs, mi, instance, product) ==
    LET p == instance.product
    IN  IF ~product.found
        THEN OnProductDoesNotExist(mi)
        ELSE IF product.main_image = instance.id /\ ProductImages(imgs, p) # {}
        THEN {[main_image |-> [mi EXCEPT ![p] = f.id], saved |-> TRUE, error |-> "none"]
                 : f \in FirstByOrder(ProductImages(imgs, p))}
        ELSE {[main_image |-> mi, saved |-> FALSE, error |-> "none"]}

\* on_delete=models.SET_NULL of main_image, for the deleted image ids
SetNull(mi, ids) == [p \in DOMAIN mi |-> IF mi[p] \in ids THEN NULL ELSE mi[p]]

\* post_delete sent for each deleted instance in turn (lowest id first); a
\* handler that raises ends the sending
RECURSIVE PostDeleteAll(_, _, _, _)
PostDeleteAll(todo, imgs, prods, acc) ==
    IF todo = {} \/ acc.error # "none"
    THEN {acc}
    ELSE LET instance == CHOOSE i \in todo : \A x \in todo : i.id <= x.id
         IN  UNION { PostDeleteAll(todo \ {instance}, imgs, prods,
                         [main_image |-> o.main_image,
                          saved |-> acc.saved \/ o.saved,
                          error |-> o.error])
                     : o \in assign_new_main_image(imgs, acc.main_image, instance,
                                InstanceProduct("db", instance, prods,
                                                acc.main_image, acc.main_image)) }

\* ProductImage(product=p, order=order).save(); raw is the save of a fixture
\* load, which stores the row as given and skips ProductImage.save
CreateImage(p, order, raw) ==
    /\ p \in products
    /\ nextId <= MaxImages
    /\ raw => order # NULL
    /\ LET instance == [id |-> nextId, product |-> p,
                        order |-> IF raw THEN order ELSE save_order(images, p, order)]
           imgs == images \cup {instance}
       IN  /\ images' = imgs
           /\ \E o \in assign_main_image(imgs, main_image, instance, raw) :
                 /\ main_image' = o.main_image
                 /\ ev' = [op |-> "create", image |-> instance.id, product |-> p,
                           raw |-> raw, auto |-> (order = NULL),
                           maxBefore |-> AggregateMaxOrder(ProductImages(images, p)),
                           mainBefore |-> main_image[p], view |-> "none",
                           saved |-> o.saved, error |-> "none"]
    /\ nextId' = nextId + 1
    /\ rawLoaded' = (rawLoaded \/ raw)
    /\ UNCHANGED products
    /\ UNCHANGED priceVars

\* instance.delete() of a ProductImage: SET_NULL update, row deletion, post_delete
DeleteImage(instance, view) ==
    /\ instance \in images
    /\ LET imgs == images \ {instance}
           mi == SetNull(main_image, {instance.id})
           product == InstanceProduct(view, instance, products, main_image, mi)
       IN  /\ images' = imgs
           /\ \E o \in assign_new_main_image(imgs, mi, instance, product) :
                 /\ main_image' = o.main_image
                 /\ ev' = [op |-> "delete", image |-> instance.id,
                           product |-> instance.product,
                           raw |-> FALSE, auto |-> FALSE, maxBefore |-> NULL,
                           mainBefore |-> main_image[instance.product], view |-> view,
                           saved |-> o.saved, error |-> o.error]
    /\ UNCHANGED <<products, nextId, rawLoaded>>
    /\ UNCHANGED priceVars

\* product.delete(): the product's images are deleted with it (the cascade of
\* ProductImage.product), then post_delete is sent for each of them
DeleteProduct(p) ==
    /\ p \in products
    /\ LET gone == ProductImages(images, p)
           imgs == images \ gone
           prods == products \ {p}
           mi == [SetNull(main_image, ImageIds(gone)) EXCEPT ![p] = NULL]
       IN  /\ images' = imgs
           /\ products' = prods
           /\ \E o \in PostDeleteAll(gone, imgs, prods,
                          [main_image |-> mi, saved |-> FALSE, error |-> "none"]) :
                 /\ main_image' = o.main_image
                 /\ ev' = [op |-> "delete_product",
                           image |-> AggregateMaxOrder({[order |-> i.id] : i \in gone}),
                           product |-> p,
                           raw |-> FALSE, auto |-> FALSE, maxBefore |-> NULL,
                           mainBefore |-> main_image[p], view |-> "db",
                           saved |-> o.saved, error |-> o.error]
    /\ UNCHANGED <<nextId, rawLoaded>>
    /\ UNCHANGED priceVars

\* product.main_image = image; product.save(): the field is a plain nullable
\* ForeignKey, any existing ProductImage row (or None) is stored
SetMainImage(p, id) ==
    /\ p \in products
    /\ id \in ImageIds(images) \cup {NULL}
    /\ main_image' = [main_image EXCEPT ![p] = id]
    /\ ev' = [op |-> "set_main_image", image |-> id, product |-> p,
              raw |-> FALSE, auto |-> FALSE, maxBefore |-> NULL,
              mainBefore |-> main_image[p], view |-> "none",
              saved |-> TRUE, error |-> "none"]
    /\ UNCHANGED <<products, images, nextId, rawLoaded>>
    /\ UNCHANGED priceVars

----------------------------------------------------------------------------
\* Initial states

NoEvent == [op |-> "none", image |-> NULL, product |-> NULL, raw |-> FALSE,
            auto |-> FALSE, maxBefore |-> NULL, mainBefore |-> NULL,
            view |-> "none", saved |-> FALSE, error |-> "none"]

\* no image rows yet, every product without a main image
ImageInit ==
    /\ products = Products
    /\ images = {}
    /\ main_image = [p \in Products |-> NULL]
    /\ nextId = 1
    /\ rawLoaded = FALSE
    /\ ev = NoEvent

\* a catalog drawn from the bounded value sets
CatalogInit ==
    /\ price = BasePrice
    /\ discount \in [Products -> Rates \cup {NULL}]
    /\ price_offset \in [Variants -> Offsets]
    /\ overrides \in {S \in SUBSET OverrideRows : Cardinality(S) <= MaxOverrides}
    /\ result = NoCall

\* one fixed catalog, for the specifications of the image handlers
CatalogFixed ==
    /\ price = BasePrice
    /\ discount = [p \in Products |-> NULL]
    /\ price_offset = [v \in Variants |-> 0]
    /\ overrides = {}
    /\ result = NoCall

Init == CatalogInit /\ ImageInit

Next ==
    \/ \E p \in Products, q \in Quantities : CallGetBasePrice(p, q)
    \/ \E v \in Variants, flag \in BOOLEAN, q \in Quantities : CallGetPriceForItem(v, flag, q)

Spec == Init /\ [][Next]_vars

ImageInitFixed == CatalogFixed /\ ImageInit

ImageNext ==
    \/ \E p \in Products, order \in (0..MaxOrder) \cup {NULL}, raw \in BOOLEAN :
          CreateImage(p, order, raw)
    \/ \E instance \in images, view \in {"db", "cached"} : DeleteImage(instance, view)
    \/ \E p \in Products : DeleteProduct(p)

ImageSpec == ImageInitFixed /\ [][ImageNext]_vars

AdminNext ==
    \/ ImageNext
    \/ \E p \in Products, id \in (1..MaxImages) \cup {NULL} : SetMainImage(p, id)

AdminSpec == ImageInitFixed /\ [][AdminNext]_vars

----------------------------------------------------------------------------
\* Properties of the price computation (checked under Spec)

\* the override rows of product p a quantity q qualifies for
Qualifying(p, q) == {o \in overrides : o.product = p /\ o.min_qty <= q}

\* the unit prices the documented tier rule allows as base price of p at q:
\* the price of a qualifying override of greatest min_qty, else Product.price
TierBase(p, q) ==
    IF Qualifying(p, q) = {}
    THEN {price[p]}
    ELSE {o.price : o \in {m \in Qualifying(p, q) :
                              \A x \in Qualifying(p, q) : x.min_qty <= m.min_qty}}

\* C1: when no override of the product has min_qty <= q, _get_base_price(q)
\* returns Product.price in the default currency, as a normal result.
C1_FallbackToBasePrice ==
    (result.op = "_get_base_price" /\ Qualifying(result.who, result.quantity) = {})
        => /\ result.raised = "none"
           /\ result.price = [net |-> price[result.who] * FieldScale,
                              currency |-> DefaultCurrency]

\* C2: when some override of the product has min_qty <= q, _get_base_price(q)
\* returns, in the default currency, the unit price of an override of that
\* product with the greatest min_qty that is <= q.
C2_TierSelection ==
    (result.op = "_get_base_price" /\ Qualifying(result.who, result.quantity) # {})
        => /\ result.raised = "none"
           /\ result.price.currency = DefaultCurrency
           /\ \E o \in overrides :
                 /\ o.product = result.who
                 /\ o.min_qty <= result.quantity
                 /\ \A x \in overrides :
                       (x.product = result.who /\ x.min_qty <= result.quantity)
                           => x.min_qty <= o.min_qty
                 /\ result.price.net = o.price * FieldScale

\* C2 witness: a call at q = min_qty of one override, with a lower tier of
\* another price on the same product; the tier at q is the one returned.
C2_Witness ==
    /\ result.op = "_get_base_price"
    /\ result.raised = "none"
    /\ \E o, lower \in overrides :
          /\ o.product = result.who /\ lower.product = result.who
          /\ o.min_qty = result.quantity
          /\ lower.min_qty < o.min_qty
          /\ lower.price # o.price
          /\ result.price.net = o.price * FieldScale

\* C3: with discount=True and a discount group of rate r on the product,
\* get_price_for_item(q) = (base(q) + price_offset) * (1 - r/100) for every q.
C3_DiscountAfterOffset ==
    (/\ result.op = "get_price_for_item"
     /\ result.discount
     /\ discount[VariantProduct(result.who)] # NULL)
        => /\ result.raised = "none"
           /\ \E b \in TierBase(VariantProduct(result.who), result.quantity) :
                 result.price.net * RateScale =
                     (b + price_offset[result.who]) * FieldScale
                         * (RateScale - discount[VariantProduct(result.who)])

\* C4: with discount=False, or with no discount group on the product,
\* get_price_for_item(q) = base(q) + price_offset for every q.
C4_NoDiscountPath ==
    (/\ result.op = "get_price_for_item"
     /\ (~result.discount \/ discount[VariantProduct(result.who)] = NULL))
        => /\ result.raised = "none"
           /\ \E b \in TierBase(VariantProduct(result.who), result.quantity) :
                 result.price.net = (b + price_offset[result.who]) * FieldScale

----------------------------------------------------------------------------
\* Properties of the image handlers (checked under ImageSpec and AdminSpec)

\* the image row the last event created
Created == CHOOSE i \in images : i.id = ev.image

\* C5: after any sequence of image creations and deletions (fixture loads
\* aside), a product with at least one image has one of its own images as
\* main_image, and a product with no image has main_image null.
C5_MainImageInvariant ==
    ~rawLoaded =>
        \A p \in products :
            /\ ProductImages(images, p) # {}
                  => main_image[p] \in ImageIds(ProductImages(images, p))
            /\ ProductImages(images, p) = {} => main_image[p] = NULL

\* C6: an image saved with no order given gets (greatest order among the
\* product's existing images) + 1, or 0 when the product has no image yet.
C6_OrderAutoAssigned ==
    (ev.op = "create" /\ ev.auto)
        => Created.order = (IF ev.maxBefore = NULL THEN 0 ELSE ev.maxBefore + 1)

\* C7: when the deleted image was the product's main_image and images of the
\* product remain, the handler leaves main_image at the remaining image of
\* lowest order and has saved the product.
C7_ReassignOnDelete ==
    (/\ ev.op = "delete"
     /\ ev.mainBefore = ev.image
     /\ ProductImages(images, ev.product) # {})
        => /\ ev.saved
           /\ \E f \in ProductImages(images, ev.product) :
                 /\ main_image[ev.product] = f.id
                 /\ \A x \in ProductImages(images, ev.product) : f.order <= x.order

\* C8: main_image of every product is null or an image of that same product,
\* also after administrative writes to the field.
C8_MainImageOwnership ==
    \A p \in products :
        \/ main_image[p] = NULL
        \/ \E i \in images : i.id = main_image[p] /\ i.product = p

\* C9: a non-raw save of an image of a product without main_image sets
\* main_image to an image of the product of lowest order and saves the
\* product; a raw save, or a save on a product whose main_image is set,
\* leaves main_image as it was and saves nothing.
C9_AssignOnCreate ==
    ev.op = "create" =>
        IF ~ev.raw /\ ev.mainBefore = NULL
        THEN /\ ev.saved
             /\ \E f \in ProductImages(images, ev.product) :
                   /\ main_image[ev.product] = f.id
                   /\ \A x \in ProductImages(images, ev.product) : f.order <= x.order
        ELSE /\ ~ev.saved
             /\ main_image[ev.product] = ev.mainBefore

\* C9 witness: the handler assigned a main image that is not the image saved.
C9_Witness ==
    /\ ev.op = "create" /\ ~ev.raw /\ ev.mainBefore = NULL /\ ev.saved
    /\ main_image[ev.product] # NULL
    /\ main_image[ev.product] # ev.image

\* C10: the post_delete handlers of images whose product is gone raise
\* nothing, save nothing and leave every main_image as the deletion left it.
C10_OrphanNoOp ==
    [][(ev'.op = "delete_product" /\ products' # products)
          => /\ ev'.error = "none"
             /\ ~ev'.saved
             /\ ev'.product \notin products'
             /\ products' = products \ {ev'.product}
             /\ \A q \in products' :
                   main_image'[q] =
                       (IF main_image[q] \in ImageIds(ProductImages(images, ev'.product))
                        THEN NULL ELSE main_image[q])]_vars

\* C10 witness: a product was deleted together with at least one image, whose
\* post_delete handler then ran without the product.
C10_Witness ==
    /\ ev.op = "delete_product"
    /\ ev.image # NULL
    /\ ev.product \notin products
    /\ ev.error = "none"

====
